---- MODULE Spec2Model ----
(***************************************************************************)
(* Model of src/timer.js: the Timer objects and the TimerManager that      *)
(* ticks them.                                                             *)
(*                                                                         *)
(* Dates.  The code reads a Date only to subtract it from the current time *)
(* (lines 129, 191, 288), so a date is held relative to the present, in    *)
(* milliseconds: `new Date()` is 0 (Now) and a stored date is <= 0.  When  *)
(* time passes (Advance) every stored date moves into the past.  A date    *)
(* older than every threshold it is compared with stops ageing (Horizon    *)
(* definitions), which changes no comparison the code makes.               *)
(*                                                                         *)
(* Objects.  Timer objects live in the heap `obj` (a sequence; a reference *)
(* is an index); the manager's array `timers` holds references.  An object *)
(* pruned from the array stays in the heap: the continuation of an action  *)
(* in flight still holds it.                                               *)
(*                                                                         *)
(* Callbacks.  `action` and `tickAction` belong to the host application:   *)
(* they are opaque and modelled as not touching the timer or the manager.  *)
(* An invocation of `action` is a promise that later either resolves       *)
(* (ActionCompletes) or rejects (ActionRejects).                           *)
(***************************************************************************)
EXTENDS Integers, Sequences, FiniteSets, TLC

VARIABLES
    timers,                  \* TimerManager._timers: sequence of references
    obj,                     \* heap of Timer objects
    lastExecutionDate,       \* TimerManager.lastExecutionDate
    inactivityLastClearDate, \* player.inactivityLastClearDate
    hist,                    \* history, per object: the invocations of its action
    lastOp,                  \* history: the call that produced this state
    verbose                  \* history: lastOp records every call, or only some

vars == <<timers, obj, lastExecutionDate, inactivityLastClearDate, hist, lastOp, verbose>>

----------------------------------------------------------------------------
(* Bounds of the model *)

\* Timer objects ever constructed, under Spec and under SpecPair
MaxObjects == 1
MaxPairObjects == 2
\* ticks one timer counts from its construction or from its last reset
MaxElapsed == 3
MaxPairElapsed == 2

(* Program constants *)

\* Timer.elapsedSeconds at construction
InitialElapsedSeconds == 4800
\* isComplete: rangeStart, rangeEnd
RangeStart == 0
RangeEnd == 4800
\* TimerManager.timerTolerance = 0.4 s, in ms
TimerToleranceMs == 400
\* TimerManager.checkTimerInterval, ms
CheckTimerInterval == 1000
\* the divisor that turns a Date difference into seconds
MsPerSecond == 1000
\* resetInactivityTimers: 10_000 ms between resets
InactivityResetGapMs == 10000

\* new Date(): the present
Now == 0
\* JavaScript's null, for maxSeconds (no input is negative)
Null == 0 - 1
\* player.inactivityLastClearDate before the host has ever set it (undefined);
\* no date read from the clock is after Now
NoDate == Now + 1

(* Inputs *)

\* the time that passes between two calls, ms: under Spec, where half a second
\* is too early for the next pass, and under SpecPair, where the host is slow
Deltas == {500, 1000, 10000}
PairDeltas == {3000, 10000}
Ids == {"a", "b"}

\* an argument list of addTimer (action is opaque; tickAction is null or not)
In(id, isBlockTimer, intervalSeconds, maxSeconds, isInactivityTimer, hasTickAction) ==
    [id |-> id, isBlockTimer |-> isBlockTimer, intervalSeconds |-> intervalSeconds,
     maxSeconds |-> maxSeconds, isInactivityTimer |-> isInactivityTimer,
     hasTickAction |-> hasTickAction]

\* the argument lists tried under Spec
TimerInputs ==
    { In("a", FALSE, 2, Null, TRUE, TRUE),
      In("a", TRUE, 2, 2, TRUE, FALSE),
      In("b", TRUE, 1, 2, TRUE, FALSE),
      In("b", FALSE, 1, Null, FALSE, FALSE),
      In("b", TRUE, 2, 2, FALSE, FALSE),
      In("a", FALSE, 0, Null, FALSE, FALSE),
      In("b", TRUE, 1, 0, TRUE, FALSE) }

\* the argument lists tried under SpecPair
PairInputs ==
    { In("a", FALSE, 2, Null, TRUE, TRUE),
      In("a", TRUE, 1, 2, TRUE, FALSE),
      In("b", TRUE, 1, Null, FALSE, FALSE),
      In("a", FALSE, 0, Null, FALSE, FALSE),
      In("b", TRUE, 1, 0, TRUE, FALSE) }

----------------------------------------------------------------------------
(* Helpers *)

Abs(x) == IF x < 0 THEN 0 - x ELSE x

Max(x, y) == IF x >= y THEN x ELSE y

Min(x, y) == IF x <= y THEN x ELSE y

Refs == DOMAIN obj

InCollection(ts) == {ts[i] : i \in DOMAIN ts}

\* a stored date after d ms have passed; it stops ageing at the horizon
Older(date, d, horizon) == Max(date - d, Now - horizon)

----------------------------------------------------------------------------
(* class Timer *)

\* constructor: the fields of a new Timer (action and createdDate are never read)
NewTimer(in, date) ==
    [id |-> in.id,
     isBlockTimer |-> in.isBlockTimer,
     intervalSeconds |-> in.intervalSeconds,
     maxSeconds |-> in.maxSeconds,
     isInactivityTimer |-> in.isInactivityTimer,
     isActionRunning |-> FALSE,
     isActive |-> FALSE,
     lastExecutionDate |-> date,
     elapsedSeconds |-> InitialElapsedSeconds,
     hasTickAction |-> in.hasTickAction]

\* get remainingSeconds
remainingSeconds(t) ==
    IF t.maxSeconds = Null THEN Null ELSE Max(0, t.maxSeconds - t.elapsedSeconds)

\* isComplete as its comment has it: remainingSeconds = 0
isCompleteAtZero(t) ==
    t.maxSeconds # Null /\ remainingSeconds(t) = 0

\* get isComplete
isComplete(t) ==
    IF t.maxSeconds = Null THEN FALSE
    ELSE remainingSeconds(t) >= RangeStart /\ remainingSeconds(t) <= RangeEnd

\* cancel() that leaves maxSeconds alone
cancelKeepsMax(t) == [t EXCEPT !.isActive = FALSE]

\* cancel()
cancel(t) == [t EXCEPT !.isActive = FALSE, !.maxSeconds = t.elapsedSeconds]

\* resetElapsedSeconds() that resets nothing
keepElapsedSeconds(t) == t

\* resetElapsedSeconds()
resetElapsedSeconds(t) == [t EXCEPT !.elapsedSeconds = 0]

\* resetLastExecutionDate()
resetLastExecutionDate(t, date) == [t EXCEPT !.lastExecutionDate = date]

\* Overdue with > for >=: a timer exactly intervalSeconds + 1 late is passed over
OverdueStrict(t, currentDate) ==
    Abs(currentDate - t.lastExecutionDate) > (t.intervalSeconds + 1) * MsPerSecond

\* executeAction: timeDiffSec >= intervalSeconds + 1, in ms
Overdue(t, currentDate) ==
    Abs(currentDate - t.lastExecutionDate) >= (t.intervalSeconds + 1) * MsPerSecond

\* ShouldFire without the isActionRunning gate
ShouldFireReentrant(t, currentDate) ==
    /\ t.isActive
    /\ \/ t.elapsedSeconds % t.intervalSeconds = 0
       \/ Abs(currentDate - t.lastExecutionDate) >= (t.intervalSeconds + 1) * MsPerSecond

\* executeAction: the condition under which the action is invoked
ShouldFire(t, currentDate) ==
    /\ t.isActive
    /\ ~t.isActionRunning
    /\ \/ t.elapsedSeconds % t.intervalSeconds = 0
       \/ Overdue(t, currentDate)

\* executeAction up to its await: the timer it leaves, whether tickAction was
\* called and whether action was invoked
executeAction(t, currentDate) ==
    IF ~t.isActive THEN [timer |-> t, ticked |-> FALSE, started |-> FALSE]
    ELSE LET t1 == [t EXCEPT !.elapsedSeconds = @ + 1]
         IN IF ShouldFire(t1, currentDate)
            THEN [timer |-> [t1 EXCEPT !.isActionRunning = TRUE,
                                       !.lastExecutionDate = Now],
                  ticked |-> t.hasTickAction, started |-> TRUE]
            ELSE [timer |-> t1, ticked |-> t.hasTickAction, started |-> FALSE]

\* afterAction that deactivates the timer whether it is complete or not
afterActionDeactivates(t) ==
    [t EXCEPT !.isActionRunning = FALSE, !.isActive = FALSE]

\* executeAction after its await
afterAction(t) ==
    LET t1 == [t EXCEPT !.isActionRunning = FALSE]
    IN IF isComplete(t1) THEN [t1 EXCEPT !.isActive = FALSE] ELSE t1

\* the dates of a timer are compared with nothing beyond this age
TimerHorizon(t) == (t.intervalSeconds + 1) * MsPerSecond

\* the ticks a timer has counted since its construction or its last reset
TicksCounted(t) ==
    IF t.elapsedSeconds >= InitialElapsedSeconds
    THEN t.elapsedSeconds - InitialElapsedSeconds ELSE t.elapsedSeconds

----------------------------------------------------------------------------
(* class TimerManager *)

\* TickTooEarly that drops only the calls within the tolerance of the last pass
TickWithinTolerance(currentDate, last) ==
    Abs(currentDate - last) < TimerToleranceMs

\* checkTimers: the pass is dropped
TickTooEarly(currentDate, last) ==
    Abs(currentDate - last) + TimerToleranceMs < CheckTimerInterval

\* Prune that keeps the active timers only
PruneInactive(ts, heap) ==
    SelectSeq(ts, LAMBDA o : heap[o].isActive)

\* checkTimers: the filter that prunes the collection
Prune(ts, heap) ==
    SelectSeq(ts, LAMBDA o : heap[o].isActive \/ heap[o].isInactivityTimer)

\* Evaluated that waits: no timer is evaluated while an action is running
EvaluatedWhenIdle(ts, heap) ==
    {o \in InCollection(ts) :
        heap[o].isActive /\ \A p \in DOMAIN heap : ~heap[p].isActionRunning}

\* checkTimers: the timers whose executeAction is called
Evaluated(ts, heap) == {o \in InCollection(ts) : heap[o].isActive}

\* addTimer: the arguments are refused
InvalidArguments(in) ==
    in.intervalSeconds <= 0 \/ (in.maxSeconds # Null /\ in.maxSeconds <= 0)

\* addTimer: the instances of the timer that are present
ActiveWithId(ts, heap, id) ==
    {o \in InCollection(ts) : heap[o].id = id /\ heap[o].isActive = TRUE}

\* getTimer: the reference of the first timer with the id, 0 for null
getTimer(ts, heap, timerId) ==
    LET filtered == SelectSeq(ts, LAMBDA o : heap[o].id = timerId)
    IN IF Len(filtered) > 0 THEN filtered[1] ELSE 0

\* hasTimer
hasTimer(ts, heap, timerId) == getTimer(ts, heap, timerId) # 0

\* hasInactivityTimers
hasInactivityTimers(ts, heap) == \E o \in InCollection(ts) : heap[o].isInactivityTimer

\* cancel() on every timer, matching or not
CancelEvery(heap, matching) ==
    [o \in DOMAIN heap |-> cancel(heap[o])]

\* cancel() on every timer of the collection that matches
CancelWhere(heap, matching) ==
    [o \in DOMAIN heap |-> IF o \in matching THEN cancel(heap[o]) ELSE heap[o]]

\* RateLimited that also refuses the call made exactly 10 s after the last reset
RateLimitedInclusive(currentDate, lastClear) ==
    lastClear # NoDate /\ Abs(currentDate - lastClear) <= InactivityResetGapMs

\* resetInactivityTimers: the call returns at the rate limit
\* (Math.abs(currentDate - undefined) is NaN, and NaN < 10_000 is false)
RateLimited(currentDate, lastClear) ==
    lastClear # NoDate /\ Abs(currentDate - lastClear) < InactivityResetGapMs

\* InactivityTimers without the filter: every timer of the collection
EveryTimer(ts, heap) == InCollection(ts)

\* resetInactivityTimers: the timers its loop resets
InactivityTimers(ts, heap) == {o \in InCollection(ts) : heap[o].isInactivityTimer}

\* resetInactivityTimers: the loop over the inactivity timers
ResetTimers(ts, heap, date) ==
    [o \in DOMAIN heap |->
        IF o \in InactivityTimers(ts, heap)
        THEN [resetLastExecutionDate(resetElapsedSeconds(heap[o]), date)
                 EXCEPT !.isActive = TRUE]
        ELSE heap[o]]

\* resetInactivityTimers that calls itself before it writes the timestamp; the
\* third call is taken to return, where the program would go on calling
RECURSIVE resetBeforeWrite(_, _)
resetBeforeWrite(s, currentDate) ==
    LET entered == [s EXCEPT !.calls = @ + 1]
    IN IF RateLimited(currentDate, entered.clear) \/ entered.calls >= 3 THEN entered
       ELSE LET nested == resetBeforeWrite(entered, Now)
            IN [nested EXCEPT !.clear = currentDate,
                              !.heap = ResetTimers(timers, nested.heap, Now),
                              !.resets = @ + 1]

\* resetInactivityTimers, with the call it makes to itself.  s is the state it
\* reads and writes, with the number of calls entered and of loops run.
RECURSIVE resetInactivityTimers(_, _)
resetInactivityTimers(s, currentDate) ==
    LET entered == [s EXCEPT !.calls = @ + 1]
    IN IF RateLimited(currentDate, entered.clear) THEN entered
       ELSE LET nested == resetInactivityTimers([entered EXCEPT !.clear = currentDate], Now)
            IN [nested EXCEPT !.heap = ResetTimers(timers, nested.heap, Now),
                              !.resets = @ + 1]

\* manager.lastExecutionDate is compared with nothing beyond this age
ManagerHorizon == CheckTimerInterval + TimerToleranceMs + 1

----------------------------------------------------------------------------
(* History: what the callbacks of the host saw.                            *)
(*   open      invocations of the action started and not completed         *)
(*   pending   invocations of the action whose promise is not settled      *)
(*   sinceStart accepted passes since the last start of the action, counted *)
(*             up to intervalSeconds                                       *)
(*   steady    the timer has run undisturbed since addTimer: every accepted *)
(*             pass came about a second after the one before, the action   *)
(*             completed before the next pass, nobody cancelled or reset   *)
(*             it, and no more than intervalSeconds passes went by         *)
(*   age, fired accepted passes and starts of the action while steady      *)

NewHist(t) ==
    [open |-> 0, pending |-> 0, sinceStart |-> t.intervalSeconds,
     steady |-> TRUE, age |-> 0, fired |-> 0]

Disturbed(h) == [h EXCEPT !.steady = FALSE, !.age = 0, !.fired = 0]

\* two passes about one second apart: within the tolerance of the interval
NoGap(diff) == diff <= CheckTimerInterval + TimerToleranceMs

\* the history of a timer after an accepted pass, diff ms after the last one,
\* in which its action was started or not
AfterPass(h, t, diff, started) ==
    LET n == IF started THEN 1 ELSE 0
        h1 == [h EXCEPT !.open = @ + n, !.pending = @ + n,
                        !.sinceStart = IF started THEN 0
                                       ELSE Min(@ + 1, t.intervalSeconds)]
    IN IF h.steady /\ NoGap(diff) /\ h.open = 0 /\ h.age < t.intervalSeconds
       THEN [h1 EXCEPT !.age = @ + 1, !.fired = @ + n]
       ELSE Disturbed(h1)

Op(name, ok, id) ==
    [op |-> name, ok |-> ok, id |-> id, ticked |-> {}, started |-> {},
     calls |-> 0, resets |-> 0]

\* the call recorded in lastOp: every call, or only the addTimer calls that
\* were refused and the checkTimers passes that were accepted
Record(entry) ==
    /\ lastOp' = IF \/ verbose
                    \/ (entry.op = "addTimer" /\ ~entry.ok)
                    \/ (entry.op = "checkTimers" /\ entry.ok)
                 THEN entry ELSE Op("", TRUE, "")
    /\ UNCHANGED verbose

----------------------------------------------------------------------------
Start(v) ==
    /\ verbose = v
    /\ timers = <<>>
    /\ obj = <<>>
    /\ lastExecutionDate = Now
    /\ inactivityLastClearDate \in {NoDate, Now}
    /\ hist = <<>>
    /\ lastOp = Op("", TRUE, "")

Init == Start(TRUE)

InitPair == Start(FALSE)

\* d ms pass between two calls
Advance(d) ==
    /\ lastExecutionDate' = Older(lastExecutionDate, d, ManagerHorizon)
    /\ inactivityLastClearDate' =
          IF inactivityLastClearDate = NoDate THEN NoDate
          ELSE Older(inactivityLastClearDate, d, InactivityResetGapMs)
    /\ obj' = [o \in DOMAIN obj |->
                 [obj[o] EXCEPT !.lastExecutionDate = Older(@, d, TimerHorizon(obj[o]))]]
    /\ Record(Op("advance", TRUE, ""))
    /\ UNCHANGED <<timers, hist>>

\* TimerManager.addTimer; the model constructs no more than maxObjects timers
AddTimer(in, maxObjects) ==
    /\ IF InvalidArguments(in)
       THEN /\ Record(Op("addTimer", FALSE, in.id))
            /\ UNCHANGED <<timers, obj, hist>>
       ELSE IF ActiveWithId(timers, obj, in.id) = {}
       THEN /\ Len(obj) < maxObjects
            /\ obj' = Append(obj, NewTimer(in, Now))
            /\ timers' = Append(timers, Len(obj) + 1)
            /\ hist' = Append(hist, NewHist(in))
            /\ Record(Op("addTimer", TRUE, in.id))
       ELSE /\ Record(Op("addTimer", FALSE, in.id))
            /\ UNCHANGED <<timers, obj, hist>>
    /\ UNCHANGED <<lastExecutionDate, inactivityLastClearDate>>

\* TimerManager.checkTimers, up to the awaits of the executeAction calls it makes;
\* the model lets no timer count more than maxElapsed ticks
CheckTimers(maxElapsed) ==
    LET currentDate == Now
        diff == Abs(currentDate - lastExecutionDate)
    IN  IF TickTooEarly(currentDate, lastExecutionDate)
        THEN /\ Record(Op("checkTimers", FALSE, ""))
             /\ UNCHANGED <<timers, obj, lastExecutionDate, inactivityLastClearDate, hist>>
        ELSE LET kept == Prune(timers, obj)
                 evaluated == Evaluated(kept, obj)
                 run(o) == executeAction(obj[o], currentDate)
                 started == {o \in evaluated : run(o).started}
             IN  /\ \A o \in evaluated : TicksCounted(obj[o]) < maxElapsed
                 /\ lastExecutionDate' = currentDate
                 /\ timers' = kept
                 /\ obj' = [o \in DOMAIN obj |->
                               IF o \in evaluated THEN run(o).timer ELSE obj[o]]
                 /\ hist' = [o \in DOMAIN hist |->
                               AfterPass(hist[o], obj[o], diff, o \in started)]
                 /\ Record([Op("checkTimers", TRUE, "") EXCEPT
                                 !.ticked = {o \in evaluated : run(o).ticked},
                                 !.started = started])
                 /\ UNCHANGED inactivityLastClearDate

\* the promise of an invocation of action resolves: executeAction resumes
ActionCompletes(o) ==
    /\ o \in Refs
    /\ hist[o].pending > 0
    /\ obj' = [obj EXCEPT ![o] = afterAction(@)]
    /\ hist' = [hist EXCEPT ![o].pending = @ - 1, ![o].open = @ - 1]
    /\ Record(Op("actionCompletes", TRUE, obj[o].id))
    /\ UNCHANGED <<timers, lastExecutionDate, inactivityLastClearDate>>

\* a rejection after which executeAction resumes as it does after a completion
ActionRejectsAndResumes(o) ==
    /\ o \in Refs
    /\ hist[o].pending > 0
    /\ obj' = [obj EXCEPT ![o] = afterAction(@)]
    /\ hist' = [hist EXCEPT ![o].pending = @ - 1]
    /\ Record(Op("actionRejects", TRUE, obj[o].id))
    /\ UNCHANGED <<timers, lastExecutionDate, inactivityLastClearDate>>

\* the promise of an invocation of action rejects: executeAction never resumes
ActionRejects(o) ==
    /\ o \in Refs
    /\ hist[o].pending > 0
    /\ hist' = [hist EXCEPT ![o].pending = @ - 1]
    /\ Record(Op("actionRejects", TRUE, obj[o].id))
    /\ UNCHANGED <<timers, obj, lastExecutionDate, inactivityLastClearDate>>

\* the cancel calls of the manager share this effect
Cancel(matching, name, id) ==
    /\ obj' = CancelWhere(obj, matching)
    /\ hist' = [o \in DOMAIN hist |->
                  IF o \in matching THEN Disturbed(hist[o]) ELSE hist[o]]
    /\ Record(Op(name, TRUE, id))
    /\ UNCHANGED <<timers, lastExecutionDate, inactivityLastClearDate>>

\* TimerManager.cancelBlockTimers
CancelBlockTimers ==
    Cancel({o \in InCollection(timers) : obj[o].isBlockTimer}, "cancelBlockTimers", "")

\* TimerManager.cancelTimer
CancelTimer(timerId) ==
    Cancel({o \in InCollection(timers) : obj[o].id = timerId}, "cancelTimer", timerId)

\* TimerManager.cancelTimers
CancelTimers(timerIds) ==
    Cancel({o \in InCollection(timers) : obj[o].id \in timerIds}, "cancelTimers", "")

\* TimerManager.resetInactivityTimers
ResetInactivityTimers ==
    LET r == resetInactivityTimers(
                 [clear |-> inactivityLastClearDate, heap |-> obj, calls |-> 0, resets |-> 0],
                 Now)
    IN  /\ inactivityLastClearDate' = r.clear
        /\ obj' = r.heap
        /\ hist' = [o \in DOMAIN hist |->
                      IF r.resets > 0 /\ o \in InactivityTimers(timers, obj)
                      THEN Disturbed(hist[o]) ELSE hist[o]]
        /\ Record([Op("resetInactivityTimers", r.resets > 0, "") EXCEPT
                        !.calls = r.calls, !.resets = r.resets])
        /\ UNCHANGED <<timers, lastExecutionDate>>

\* the other calls, and the promises
Others(maxElapsed) ==
    \/ CheckTimers(maxElapsed)
    \/ \E o \in Refs : ActionCompletes(o)
    \/ \E o \in Refs : ActionRejects(o)
    \/ CancelBlockTimers
    \/ \E id \in Ids : CancelTimer(id)
    \/ \E ids \in SUBSET Ids : CancelTimers(ids)
    \/ ResetInactivityTimers

Next ==
    \/ \E d \in Deltas : Advance(d)
    \/ \E in \in TimerInputs : AddTimer(in, MaxObjects)
    \/ Others(MaxElapsed)

NextPair ==
    \/ \E d \in PairDeltas : Advance(d)
    \/ \E in \in PairInputs : AddTimer(in, MaxPairObjects)
    \/ Others(MaxPairElapsed)

\* one timer, time in steps of half a second
Spec == Init /\ [][Next]_vars

\* two timers, time in steps of three seconds
SpecPair == InitPair /\ [][NextPair]_vars

----------------------------------------------------------------------------
(* The claims *)

\* the timers with the id that the collection holds
Instances(ts, heap, id) == {o \in InCollection(ts) : heap[o].id = id}

\* the step is an accepted pass of checkTimers (lastExecutionDate only ever
\* becomes the present in such a pass)
AcceptedPass == lastExecutionDate' = Now /\ lastExecutionDate # Now

\* C1: at most one invocation of a timer's action is in flight at any time: no
\* timer has two invocations that were started and have not completed, and an
\* invocation whose promise is unsettled is one of them.
C1_OneInvocationInFlight ==
    \A o \in Refs : hist[o].open <= 1 /\ hist[o].pending <= hist[o].open

\* C1 witness: an accepted pass has just evaluated an active timer whose
\* elapsedSeconds is a multiple of its interval, and did not start its action,
\* because the invocation started earlier is still pending.
C1_Witness ==
    /\ lastOp.op = "checkTimers" /\ lastOp.ok
    /\ \E o \in InCollection(timers) :
          /\ obj[o].isActive /\ obj[o].isActionRunning
          /\ hist[o].open = 1 /\ hist[o].pending = 1
          /\ hist[o].sinceStart > 0
          /\ obj[o].elapsedSeconds % obj[o].intervalSeconds = 0
          /\ o \notin lastOp.started

\* C2: two consecutive starts of a timer's action are at least intervalSeconds
\* accepted passes apart: a pass that starts the action of a timer comes when
\* at least intervalSeconds - 1 passes have gone by since the pass of its last
\* start.
C2_StartsAnIntervalApart ==
    [][\A o \in Refs :
          (lastOp'.op = "checkTimers" /\ o \in lastOp'.started)
              => hist[o].sinceStart + 1 >= obj[o].intervalSeconds]_vars

\* C3: addTimer with intervalSeconds > 0, maxSeconds null or > 0 and no active
\* timer of the same id appends exactly one Timer, and that timer is active.
C3_AddTimerAppendsActive ==
    [][\A in \in TimerInputs :
          ( /\ in.intervalSeconds > 0
            /\ in.maxSeconds = Null \/ in.maxSeconds > 0
            /\ \A o \in Instances(timers, obj, in.id) : ~obj[o].isActive
            /\ AddTimer(in, MaxObjects) )
          => /\ Len(timers') = Len(timers) + 1
             /\ SubSeq(timers', 1, Len(timers)) = timers
             /\ obj'[timers'[Len(timers')]].id = in.id
             /\ obj'[timers'[Len(timers')]].isActive]_vars

\* C4: no two active timers of the collection have the same id.
C4_UniqueActiveIds ==
    \A o1, o2 \in InCollection(timers) :
        (o1 # o2 /\ obj[o1].isActive /\ obj[o2].isActive) => obj[o1].id # obj[o2].id

\* C5: an addTimer call with intervalSeconds <= 0, or maxSeconds non-null and
\* <= 0, or the id of an active timer of the collection, leaves the collection
\* and every timer as they were, and the collection holds at most one timer of
\* that id, the one getTimer returns.
C5_RejectedAddTimerAddsNothing ==
    [][\A in \in PairInputs :
          ( /\ \/ in.intervalSeconds <= 0
               \/ (in.maxSeconds # Null /\ in.maxSeconds <= 0)
               \/ \E o \in Instances(timers, obj, in.id) : obj[o].isActive
            /\ AddTimer(in, MaxPairObjects) )
          => /\ timers' = timers
             /\ obj' = obj
             /\ getTimer(timers', obj', in.id) = getTimer(timers, obj, in.id)
             /\ Cardinality(Instances(timers', obj', in.id)) <= 1]_vars

\* C6: an indefinite timer of interval N made by addTimer has, after N accepted
\* passes a second apart with its action completing before the next pass, had
\* its action invoked exactly once, and is active.
C6_IndefiniteFiresOncePerInterval ==
    \A o \in Refs :
        (hist[o].steady /\ obj[o].maxSeconds = Null
                        /\ hist[o].age = obj[o].intervalSeconds)
            => (hist[o].fired = 1 /\ obj[o].isActive)

\* C7: a timer made by addTimer with intervalSeconds = maxSeconds = N has, after
\* N accepted passes a second apart, had its action invoked exactly once, and
\* once that invocation has completed it is inactive and complete.
C7_BoundedFiresOnceThenInactive ==
    \A o \in Refs :
        (hist[o].steady /\ obj[o].maxSeconds = obj[o].intervalSeconds
                        /\ hist[o].age = obj[o].intervalSeconds)
            => /\ hist[o].fired = 1
               /\ hist[o].open = 0 => (~obj[o].isActive /\ isComplete(obj[o]))

\* C8: when an accepted pass of checkTimers finishes, the collection holds no
\* timer that is inactive and not an inactivity timer, and it holds every timer
\* that was active or an inactivity timer when the pass began, in the same order.
C8_PruningKeepsActiveAndInactivity ==
    [][AcceptedPass =>
          /\ \A o \in InCollection(timers') :
                obj'[o].isActive \/ obj'[o].isInactivityTimer
          /\ timers' = SelectSeq(timers,
                LAMBDA o : obj[o].isActive \/ obj[o].isInactivityTimer)
          /\ \A o \in InCollection(timers) :
                (obj[o].isActive \/ obj[o].isInactivityTimer)
                    => o \in InCollection(timers')]_vars

\* C8 witness: a pass has just finished; it removed a timer from the collection
\* and left in it an inactivity timer that is inactive.
C8_Witness ==
    /\ lastOp.op = "checkTimers" /\ lastOp.ok
    /\ Refs \ InCollection(timers) # {}
    /\ \E o \in InCollection(timers) : ~obj[o].isActive /\ obj[o].isInactivityTimer

\* C9: a checkTimers call less than checkTimerInterval minus the tolerance
\* (0.6 s) after the last accepted pass changes nothing: not the manager's
\* lastExecutionDate, not the collection, no field of any timer; it invokes no
\* action and no tickAction.
C9_EarlyTickIsDropped ==
    [][(lastOp'.op = "checkTimers"
            /\ Abs(Now - lastExecutionDate) < CheckTimerInterval - TimerToleranceMs)
          => /\ UNCHANGED <<timers, obj, lastExecutionDate, inactivityLastClearDate, hist>>
             /\ lastOp'.started = {} /\ lastOp'.ticked = {}
             /\ ~lastOp'.ok]_vars

\* C9 witness: a call has just been dropped half a second after the last
\* pass, with an active timer in the collection that the pass would have fired.
C9_Witness ==
    /\ lastOp.op = "checkTimers" /\ ~lastOp.ok
    /\ lastExecutionDate = Now - 500
    /\ \E o \in InCollection(timers) :
          /\ obj[o].isActive /\ ~obj[o].isActionRunning
          /\ (obj[o].elapsedSeconds + 1) % obj[o].intervalSeconds = 0

\* C10: an accepted pass that evaluates an active timer with no invocation of
\* its action open, intervalSeconds + 1 seconds or more after the timer's
\* lastExecutionDate, starts its action, whatever elapsedSeconds is.
C10_CatchUpFires ==
    [][(lastOp'.op = "checkTimers" /\ lastOp'.ok)
          => \A o \in InCollection(timers) :
                ( /\ obj[o].isActive
                  /\ hist[o].open = 0
                  /\ Abs(Now - obj[o].lastExecutionDate)
                        >= (obj[o].intervalSeconds + 1) * MsPerSecond )
                => o \in lastOp'.started]_vars

\* C10 witness: a pass has just started the action of a timer whose
\* elapsedSeconds is no multiple of its interval.
C10_Witness ==
    /\ lastOp.op = "checkTimers" /\ lastOp.ok
    /\ \E o \in lastOp.started :
          /\ obj[o].elapsedSeconds % obj[o].intervalSeconds # 0
          /\ obj[o].lastExecutionDate = Now

\* the step is a cancel call of the manager that reaches timer o
CancelStep(o) ==
    /\ o \in InCollection(timers)
    /\ \/ CancelBlockTimers /\ obj[o].isBlockTimer
       \/ \E id \in Ids : CancelTimer(id) /\ obj[o].id = id
       \/ \E ids \in SUBSET Ids : CancelTimers(ids) /\ obj[o].id \in ids

\* the step is a resetInactivityTimers call that ran its loop
ResetStep == lastOp'.op = "resetInactivityTimers" /\ lastOp'.resets > 0

\* C11: a cancel call that reaches an active timer leaves it inactive and
\* complete, and a timer that is inactive and complete is inactive and complete
\* after every step that is no reset by resetInactivityTimers: a further tick,
\* the completion of its action that was in flight, another cancel.
C11_CancelledStaysComplete ==
    [][\A o \in Refs :
          /\ (obj[o].isActive /\ CancelStep(o))
                => (~obj'[o].isActive /\ isComplete(obj'[o]))
          /\ (~obj[o].isActive /\ isComplete(obj[o]) /\ ~ResetStep)
                => (~obj'[o].isActive /\ isComplete(obj'[o]))]_vars

\* C11 witness: an indefinite timer was cancelled while its action was in
\* flight (cancel gave it a maxSeconds), and the action has just completed.
C11_Witness ==
    /\ lastOp.op = "actionCompletes"
    /\ \E o \in Refs :
          /\ ~obj[o].isBlockTimer /\ obj[o].isInactivityTimer
          /\ obj[o].maxSeconds # Null /\ obj[o].maxSeconds = obj[o].elapsedSeconds
          /\ obj[o].elapsedSeconds < InitialElapsedSeconds
          /\ hist[o].open = 0
          /\ ~obj[o].isActive /\ isComplete(obj[o])

\* a cancel call has cancelled the timers of matching and left the others and
\* the collection as they were
CancelledExactly(matching) ==
    /\ timers' = timers
    /\ DOMAIN obj' = DOMAIN obj
    /\ \A o \in Refs :
          IF o \in matching
          THEN /\ ~obj'[o].isActive
               /\ obj'[o].maxSeconds = obj[o].elapsedSeconds
               /\ obj'[o].elapsedSeconds = obj[o].elapsedSeconds
          ELSE /\ obj'[o].isActive = obj[o].isActive
               /\ obj'[o].maxSeconds = obj[o].maxSeconds
               /\ obj'[o].elapsedSeconds = obj[o].elapsedSeconds

\* C12: cancelBlockTimers cancels the block timers of the collection,
\* cancelTimer(id) the timers with that id, cancelTimers(ids) the timers whose
\* id is in ids; each leaves isActive, maxSeconds and elapsedSeconds of every
\* other timer unchanged and the collection with the same timers.  (A cancel
\* call that changes no timer at all has nothing to show; no cancel call
\* touches the manager's lastExecutionDate.)
C12_CancelsExactlyMatching ==
    [][(obj' # obj /\ lastExecutionDate' = lastExecutionDate) =>
          /\ CancelBlockTimers
                => CancelledExactly({o \in InCollection(timers) : obj[o].isBlockTimer})
          /\ \A id \in Ids :
                CancelTimer(id)
                   => CancelledExactly({o \in InCollection(timers) : obj[o].id = id})
          /\ \A ids \in SUBSET Ids :
                CancelTimers(ids)
                   => CancelledExactly({o \in InCollection(timers) : obj[o].id \in ids})]_vars

\* C12 witness: two timers with the same id were active, one a block timer and
\* one not; the block timer has been cancelled after its first tick and the
\* other one is still active, with the maxSeconds it was made with.
C12_Witness ==
    \E o1, o2 \in InCollection(timers) :
        /\ obj[o1].isBlockTimer /\ ~obj[o1].isActive
        /\ obj[o1].elapsedSeconds = 1 /\ obj[o1].maxSeconds = 1
        /\ ~obj[o2].isBlockTimer /\ obj[o2].isActive
        /\ obj[o2].maxSeconds = Null /\ obj[o2].elapsedSeconds = 1
        /\ obj[o1].id = obj[o2].id

\* C13: a resetInactivityTimers call made less than 10 seconds after the last
\* reset that was performed changes no timer and leaves the last-clear
\* timestamp alone; a call made 10 seconds or more after it (or when no reset
\* was ever performed) writes the timestamp and leaves every inactivity timer
\* of the collection active, with elapsedSeconds 0 and lastExecutionDate the
\* time of the call.
C13_ResetRateLimited ==
    [][lastOp'.op = "resetInactivityTimers" =>
          IF /\ inactivityLastClearDate # NoDate
             /\ Abs(Now - inactivityLastClearDate) < InactivityResetGapMs
          THEN /\ UNCHANGED <<timers, obj, inactivityLastClearDate>>
               /\ lastOp'.resets = 0
          ELSE /\ inactivityLastClearDate' = Now
               /\ lastOp'.resets = 1
               /\ \A o \in InCollection(timers) :
                     obj[o].isInactivityTimer =>
                        /\ obj'[o].isActive
                        /\ obj'[o].elapsedSeconds = 0
                        /\ obj'[o].lastExecutionDate = Now]_vars

\* C13 witness: a reset was performed, and a call made after it, but less than
\* 10 seconds after it, has just been refused: the inactivity timer, cancelled
\* in between, is still inactive.
C13_Witness ==
    /\ lastOp.op = "resetInactivityTimers" /\ ~lastOp.ok
    /\ inactivityLastClearDate # NoDate
    /\ inactivityLastClearDate < Now
    /\ \E o \in InCollection(timers) :
          /\ obj[o].isInactivityTimer /\ ~obj[o].isActive
          /\ obj[o].elapsedSeconds < InitialElapsedSeconds

\* C14: a step that takes a timer from inactive to active is a
\* resetInactivityTimers call, and the timer is an inactivity timer of the
\* collection; so a timer that is no inactivity timer, once inactive, is never
\* active again.
C14_OnlyResetReactivates ==
    [][\A o \in Refs :
          (~obj[o].isActive /\ obj'[o].isActive)
             => /\ obj[o].isInactivityTimer
                /\ o \in InCollection(timers)
                /\ ResetInactivityTimers]_vars

\* C14 witness: a reset has just made an inactivity timer active, with a
\* cancelled timer that is no inactivity timer in the collection: that one is
\* still inactive.
C14_Witness ==
    /\ inactivityLastClearDate = Now
    /\ \E o1, o2 \in InCollection(timers) :
          /\ obj[o1].isInactivityTimer /\ obj[o1].isActive
          /\ obj[o1].elapsedSeconds = 0 /\ obj[o1].lastExecutionDate = Now
          /\ ~obj[o2].isInactivityTimer /\ ~obj[o2].isActive
          /\ obj[o2].maxSeconds = obj[o2].elapsedSeconds

\* C15: an accepted pass made while the action of a timer A is pending
\* evaluates every other active timer B of the collection: elapsedSeconds of B
\* goes up by one, and the action of B is started if B is not running its
\* action and its elapsedSeconds reaches a multiple of its interval or it is
\* intervalSeconds + 1 seconds late; the pass ends with the action of A still
\* pending.
C15_PendingActionBlocksNoOther ==
    [][(lastOp'.op = "checkTimers" /\ lastOp'.ok) =>
          \A A \in Refs, B \in InCollection(timers) :
             (A # B /\ hist[A].pending > 0 /\ obj[B].isActive) =>
                /\ obj'[B].elapsedSeconds = obj[B].elapsedSeconds + 1
                /\ ( /\ ~obj[B].isActionRunning
                     /\ \/ (obj[B].elapsedSeconds + 1) % obj[B].intervalSeconds = 0
                        \/ Abs(Now - obj[B].lastExecutionDate)
                              >= (obj[B].intervalSeconds + 1) * MsPerSecond )
                      => (B \in lastOp'.started /\ obj'[B].isActionRunning)
                /\ hist'[A].pending >= hist[A].pending]_vars

\* C15 witness: a pass has just started the action of B on its second tick
\* while the action of A, started by an earlier pass, is still pending.
C15_Witness ==
    /\ lastOp.op = "checkTimers" /\ lastOp.ok
    /\ \E A \in Refs, B \in InCollection(timers) :
          /\ A # B
          /\ hist[A].pending > 0 /\ A \notin lastOp.started
          /\ B \in lastOp.started /\ obj[B].elapsedSeconds = 2

\* C16: a step that takes a timer from active to inactive is a cancel call that
\* reaches it, or the completion of an invocation of its own action with the
\* timer complete; and a timer whose maxSeconds is null is not complete, before
\* and after every step.
C16_DeactivatedByCancelOrCompletion ==
    [][\A o \in Refs :
          /\ (obj[o].isActive /\ ~obj'[o].isActive)
                => \/ CancelStep(o)
                   \/ (ActionCompletes(o) /\ isComplete(obj[o]))
          /\ obj[o].maxSeconds = Null => ~isComplete(obj[o])
          /\ obj'[o].maxSeconds = Null => ~isComplete(obj'[o])]_vars

\* C16 witness: the actions of two timers have completed; the bounded one is
\* inactive since (it was not cancelled: its maxSeconds is the one it was made
\* with), the one without maxSeconds is still active.
C16_Witness ==
    \E o1, o2 \in Refs :
        /\ ~obj[o1].isActive /\ hist[o1].open = 0
        /\ obj[o1].maxSeconds = 2 /\ obj[o1].elapsedSeconds = 1
        /\ obj[o2].isActive /\ hist[o2].open = 0
        /\ obj[o2].maxSeconds = Null
        /\ hist[o2].sinceStart = 0 /\ obj[o2].elapsedSeconds \in 1..2

\* C17: a resetInactivityTimers call that runs its loop leaves every inactivity
\* timer of the collection active, with elapsedSeconds 0 and lastExecutionDate
\* the time of the call, and every other timer as it was; and a pass that
\* starts the action of a timer that was reset comes when the timer has been
\* evaluated intervalSeconds times or more since the reset (elapsedSeconds
\* counts them from 0), or intervalSeconds + 1 seconds or more after its
\* lastExecutionDate, which is never before the reset.
C17_ResetThenNoEarlyFire ==
    [][/\ ResetStep =>
             \A o \in Refs :
                IF o \in InCollection(timers) /\ obj[o].isInactivityTimer
                THEN /\ obj'[o].isActive
                     /\ obj'[o].elapsedSeconds = 0
                     /\ obj'[o].lastExecutionDate = Now
                ELSE obj'[o] = obj[o]
       /\ (lastOp'.op = "checkTimers" /\ lastOp'.ok) =>
             \A o \in lastOp'.started :
                (obj[o].isInactivityTimer
                    /\ obj[o].elapsedSeconds < InitialElapsedSeconds)
                   => \/ obj'[o].elapsedSeconds >= obj[o].intervalSeconds
                      \/ Abs(Now - obj[o].lastExecutionDate)
                            >= (obj[o].intervalSeconds + 1) * MsPerSecond]_vars

\* C17 witness: a timer of interval 2 that was reset has been evaluated by a
\* first pass, which did not start its action, and by a second pass a second
\* later, which has just started it.
C17_Witness ==
    /\ lastOp.op = "checkTimers" /\ lastOp.ok
    /\ \E o \in lastOp.started :
          /\ obj[o].isInactivityTimer
          /\ obj[o].intervalSeconds = 2 /\ obj[o].elapsedSeconds = 2
          /\ hist[o].open = 1 /\ hist[o].pending = 1
          /\ inactivityLastClearDate = Now - 2 * MsPerSecond

C19_ResetTerminates ==
    lastOp.op = "resetInactivityTimers" =>
        \/ (lastOp.calls = 1 /\ lastOp.resets = 0 /\ ~lastOp.ok)
        \/ (lastOp.calls = 2 /\ lastOp.resets = 1 /\ lastOp.ok)

\* C19 witness: a call has just passed the rate limit, called itself once and
\* reset an inactivity timer once.
C19_Witness ==
    /\ lastOp.op = "resetInactivityTimers"
    /\ lastOp.calls = 2 /\ lastOp.resets = 1
    /\ inactivityLastClearDate = Now
    /\ \E o \in InCollection(timers) :
          obj[o].isInactivityTimer /\ obj[o].isActive /\ obj[o].elapsedSeconds = 0

\* an invocation of the action of o was started and its promise rejected
Rejected(o) == hist[o].open > hist[o].pending

\* C20 as stated: once an invocation of its action has rejected, a timer keeps
\* isActionRunning true, its action is not started again, it stays active and
\* in the collection, and every accepted pass increments its elapsedSeconds.
\* A cancel call after the rejection makes it inactive.
C20_RejectedStaysActive ==
    [][\A o \in Refs :
          Rejected(o) =>
             /\ obj'[o].isActionRunning
             /\ hist'[o].open = hist[o].open
             /\ obj'[o].isActive
             /\ o \in InCollection(timers')
             /\ (lastOp'.op = "checkTimers" /\ lastOp'.ok)
                   => obj'[o].elapsedSeconds = obj[o].elapsedSeconds + 1]_vars

\* C20, amended: the rejection of an invocation changes no timer and not the
\* collection.  Once an invocation of its action has rejected, a timer keeps
\* isActionRunning true and its action is not started again; no step but a
\* cancel call that reaches it makes it inactive, and while it is active it
\* stays in the collection and every accepted pass increments its
\* elapsedSeconds, as it does for every other active timer of the collection.
C20_RejectedNeverRestarts ==
    [][\A o \in Refs :
          /\ (hist'[o].pending < hist[o].pending /\ hist'[o].open = hist[o].open)
                => (obj' = obj /\ timers' = timers)
          /\ Rejected(o) =>
                /\ obj'[o].isActionRunning
                /\ hist'[o].open = hist[o].open
                /\ (obj[o].isActive /\ ~CancelStep(o))
                      => (obj'[o].isActive /\ o \in InCollection(timers'))
                /\ (lastOp'.op = "checkTimers" /\ lastOp'.ok) =>
                      \A p \in InCollection(timers) :
                         obj[p].isActive =>
                            obj'[p].elapsedSeconds = obj[p].elapsedSeconds + 1]_vars

\* C20 witness: the action of a timer rejected after its first tick; a second
\* pass has just counted its second tick, a multiple of its interval, without
\* starting its action, and has started the action of another timer.
C20_Witness ==
    /\ lastOp.op = "checkTimers" /\ lastOp.ok
    /\ \E o, p \in InCollection(timers) :
          /\ Rejected(o)
          /\ obj[o].isActive /\ obj[o].isActionRunning
          /\ obj[o].elapsedSeconds = 2
          /\ obj[o].elapsedSeconds % obj[o].intervalSeconds = 0
          /\ o \notin lastOp.started
          /\ p \in lastOp.started

====
